---- MODULE Spec2Model ----
(***************************************************************************)
(* The feedback system of task2_feedback_system: the SQLite feedback store *)
(* (utils/database.py), the LLM handler with its per-artifact fallbacks    *)
(* (utils/llm_handler.py) and the submission flow of the user page         *)
(* (pages/1_user_dashboard.py).                                            *)
(*                                                                         *)
(* Representation.  A text (Python str) is a sequence of strings: a review *)
(* is a sequence of characters, a generated or fallback text a sequence of *)
(* chunks.  str.strip() removes the whitespace elements at both ends.      *)
(* Python's None in a text position is the one-element sequence NoneText,  *)
(* which no text of the model equals (the empty text is << >>).            *)
(***************************************************************************)
EXTENDS Integers, Sequences, FiniteSets, TLC

VARIABLES
    feedback,            \* the committed rows of table feedback
    sqlite_sequence,     \* AUTOINCREMENT's counter for table feedback
    now,                 \* CURRENT_TIMESTAMP, in seconds
    issued,              \* history: the ids insert_feedback returned, in order
    OPENROUTER_API_KEY,  \* the environment variable
    llm_instance,        \* llm_handler._llm_instance
    pc,                  \* per session: where the user page's script stands
    submitted,           \* st.session_state.submitted
    response_data,       \* st.session_state.response_data
    rating,              \* the select_slider's value
    review_text,         \* the text_area's value
    ai_responses,        \* the artifacts process_feedback has produced so far
    api_log,             \* history: the outcome of each requests.post of the run
    error,               \* which st.error the last run of the script showed
    ret,                 \* the last direct call of a FeedbackDatabase method
    stat_pc,             \* where a running get_statistics stands
    stat,                \* the values get_statistics has fetched so far
    insert_conn,         \* per session: the row its insert_feedback has executed
                         \* and not yet committed
    csv_file,            \* the rows of the file export_to_csv wrote last
    admin_view,          \* what the last run of the admin page left on screen
    admin_click,         \* the button whose click caused that run
    llm_call,            \* per session: where its get_llm_handler call stands
    llm_ret,             \* per session: what its last get_llm_handler call gave
    llm_constructed      \* history: the LLMHandler objects constructed so far

store_vars == <<feedback, sqlite_sequence, now, issued>>
llm_vars == <<OPENROUTER_API_KEY, llm_instance>>
page_vars == <<pc, submitted, response_data, rating, review_text, ai_responses, api_log, error>>
api_vars == <<ret, stat_pc, stat>>
io_vars == <<insert_conn, csv_file>>
admin_vars == <<admin_view, admin_click>>
call_vars == <<llm_call, llm_ret, llm_constructed>>
vars == <<store_vars, llm_vars, page_vars, api_vars, io_vars, admin_vars, call_vars>>

-----------------------------------------------------------------------------
(* Bounds of the model *)

\* rows the user page may insert in one behaviour of Spec
MaxSubmissions == 1
\* rows direct calls may insert in one behaviour of SpecStore, SpecConcurrent
\* and SpecApi
MaxId == 3
\* rows of the tables SpecAverage starts from
MaxRows == 6
\* rows direct calls may insert in one behaviour of SpecQueries
MaxRecords == 2
\* seconds the clock may advance in one behaviour of SpecQueries
MaxNow == 1

(* Constants of the program *)

\* len(review_text.strip()) < 10
MinReviewLen == 10
\* select_slider(..., value=5)
DefaultRating == 5

\* select_slider(options=[1, 2, 3, 4, 5])
SliderOptions == 1..5

Sessions == {"user1", "user2"}

-----------------------------------------------------------------------------
(* Texts *)

Whitespace == {" ", "\t", "\n"}

NoneText == <<"None">>

RECURSIVE LStrip(_)
LStrip(t) ==
    IF t # << >> /\ Head(t) \in Whitespace THEN LStrip(Tail(t)) ELSE t

RECURSIVE RStrip(_)
RStrip(t) ==
    IF t # << >> /\ t[Len(t)] \in Whitespace
    THEN RStrip(SubSeq(t, 1, Len(t) - 1))
    ELSE t

\* str.strip()
Strip(t) == RStrip(LStrip(t))

\* f"{rating}"
Str(n) ==
    CASE n = 0 -> "0" [] n = 1 -> "1" [] n = 2 -> "2" [] n = 3 -> "3"
      [] n = 4 -> "4" [] n = 5 -> "5" [] n = 6 -> "6" [] OTHER -> "?"

Word(n) == [i \in 1..n |-> "a"]
Padded(t) == <<" ">> \o t \o <<" ">>

\* what a user may type: nothing, blanks, one character less than the minimum
\* without and with a blank at both ends, and the minimum with a blank at
\* both ends
ReviewTexts ==
    {Word(0), Padded(Word(0)), Word(MinReviewLen - 1),
     Padded(Word(MinReviewLen - 1)), Padded(Word(MinReviewLen))}

-----------------------------------------------------------------------------
(* utils/llm_handler.py *)

\* None where a str is expected (an api key, a model name)
NoneStr == "None"

\* None where an object is expected
None == [py |-> "None"]

\* not x, for x a str or None
Falsy(x) == x \in {NoneStr, ""}

\* a constructor that takes the key as it finds it
LLMHandlerInitWithoutCheck(api_key, model) ==
    [raised |-> "",
     value |-> [api_key |-> IF Falsy(api_key) THEN OPENROUTER_API_KEY ELSE api_key,
                model |-> IF Falsy(model)
                          THEN "mistralai/mistral-7b-instruct:free"
                          ELSE model]]

\* LLMHandler.__init__: the instance, or the ValueError it raises
LLMHandlerInit(api_key, model) ==
    LET key == IF Falsy(api_key) THEN OPENROUTER_API_KEY ELSE api_key
    IN  IF Falsy(key)
        THEN [raised |-> "ValueError", value |-> None]
        ELSE [raised |-> "",
              value |-> [api_key |-> key,
                         model |-> IF Falsy(model)
                                   THEN "mistralai/mistral-7b-instruct:free"
                                   ELSE model]]

\* what the remote endpoint may answer with in choices[0].message.content
RemoteContents == {<<"ok">>, <<" ", "ok", "\n">>}

\* what one requests.post may end in: a 2xx answer with the expected JSON; a
\* RequestException (unreachable, timeout, non-2xx, no JSON); a KeyError (a
\* key of the path is missing); an IndexError (choices is empty)
ApiOutcomes ==
    {[kind |-> "ok", content |-> c] : c \in RemoteContents}
    \cup {[kind |-> k, content |-> << >>] :
             k \in {"RequestException", "KeyError", "IndexError"}}

\* _call_api returning the content as received
CallApiUnstripped(outcome) ==
    IF outcome.kind = "ok"
    THEN [raised |-> "", value |-> outcome.content]
    ELSE [raised |-> outcome.kind, value |-> << >>]

\* LLMHandler._call_api: the text it returns, or the exception it raises
CallApi(outcome) ==
    CASE outcome.kind = "ok" ->
            [raised |-> "", value |-> Strip(outcome.content)]
      [] outcome.kind = "RequestException" ->
            [raised |-> "Exception: OpenRouter API request failed", value |-> << >>]
      [] outcome.kind = "KeyError" ->
            [raised |-> "Exception: Unexpected API response format", value |-> << >>]
      [] OTHER ->
            [raised |-> outcome.kind, value |-> << >>]

UserResponseFallback(r) ==
    <<"Thank you for your ", Str(r),
      "-star review! We appreciate your feedback and will use it to improve our service.">>

\* the fallback summary with the low band cut at rating < 2
AdminSummaryFallbackOffByOne(r) ==
    IF r < 2
    THEN <<"Customer expressed dissatisfaction (", Str(r), " stars). Review requires attention.">>
    ELSE IF r = 3
    THEN <<"Mixed review (", Str(r), " stars). Customer had both positive and negative experiences.">>
    ELSE <<"Positive review (", Str(r), " stars). Customer had a good experience.">>

AdminSummaryFallback(r) ==
    IF r <= 2
    THEN <<"Customer expressed dissatisfaction (", Str(r), " stars). Review requires attention.">>
    ELSE IF r = 3
    THEN <<"Mixed review (", Str(r), " stars). Customer had both positive and negative experiences.">>
    ELSE <<"Positive review (", Str(r), " stars). Customer had a good experience.">>

\* (the bullet character of the source is written * here)
RecommendedActionsFallback(r) ==
    IF r <= 2
    THEN <<"* Contact customer directly to address concerns", "\n",
           "* Review and fix mentioned issues", "\n",
           "* Implement quality control measures">>
    ELSE IF r = 3
    THEN <<"* Analyze feedback for improvement areas", "\n",
           "* Follow up with customer on experience", "\n",
           "* Train staff on customer service">>
    ELSE <<"* Thank customer for positive feedback", "\n",
           "* Continue current practices", "\n",
           "* Share success with team">>

\* LLMHandler.generate_user_response, given how its request ends
generate_user_response(r, outcome) ==
    LET response == CallApi(outcome)
    IN  IF response.raised = "" THEN response.value ELSE UserResponseFallback(r)

\* LLMHandler.generate_admin_summary
generate_admin_summary(r, outcome) ==
    LET response == CallApi(outcome)
    IN  IF response.raised = "" THEN response.value ELSE AdminSummaryFallback(r)

\* LLMHandler.generate_recommended_actions
generate_recommended_actions(r, outcome) ==
    LET response == CallApi(outcome)
    IN  IF response.raised = "" THEN response.value ELSE RecommendedActionsFallback(r)

-----------------------------------------------------------------------------
(* utils/database.py *)

Max(S) == CHOOSE m \in S : \A x \in S : x <= m

\* id INTEGER PRIMARY KEY without AUTOINCREMENT: one more than the largest
\* rowid now in the table
NextRowIdWithoutAutoincrement == Max({0} \cup {row.id : row \in feedback}) + 1

\* id INTEGER PRIMARY KEY AUTOINCREMENT: one more than the largest rowid the
\* table has ever held, which sqlite_sequence remembers
NextRowId == Max({sqlite_sequence} \cup {row.id : row \in feedback}) + 1

\* an INSERT whose column list leaves out recommended_actions
InsertedRowWithoutActions(r, text, user_response, admin_summary, recommended_actions) ==
    [id |-> NextRowId,
     timestamp |-> now,
     rating |-> r,
     review_text |-> text,
     user_response |-> user_response,
     admin_summary |-> admin_summary,
     recommended_actions |-> NoneText]

\* the row INSERT INTO feedback adds: id and timestamp by the column defaults
InsertedRow(r, text, user_response, admin_summary, recommended_actions) ==
    [id |-> NextRowId,
     timestamp |-> now,
     rating |-> r,
     review_text |-> text,
     user_response |-> user_response,
     admin_summary |-> admin_summary,
     recommended_actions |-> recommended_actions]

\* an insert that also sets the timestamp of every row to the current time
InsertFeedbackTouchingAll(r, text, user_response, admin_summary, recommended_actions) ==
    LET row == InsertedRow(r, text, user_response, admin_summary, recommended_actions)
    IN  /\ feedback' = {[old EXCEPT !.timestamp = now] : old \in feedback} \cup {row}
        /\ sqlite_sequence' = row.id
        /\ issued' = Append(issued, row.id)
        /\ now' = now

\* FeedbackDatabase.insert_feedback, committed: its effect on the database file
InsertFeedback(r, text, user_response, admin_summary, recommended_actions) ==
    LET row == InsertedRow(r, text, user_response, admin_summary, recommended_actions)
    IN  /\ feedback' = feedback \cup {row}
        /\ sqlite_sequence' = row.id
        /\ issued' = Append(issued, row.id)
        /\ now' = now

\* get_llm_handler: the instance it returns, or what the constructor raises
GetLlmHandler(api_key, model) ==
    IF llm_instance = None
    THEN LLMHandlerInit(api_key, model)
    ELSE [raised |-> "", value |-> llm_instance]

\* the keys and models a caller of get_llm_handler may pass
KeyArgs == {NoneStr, "sk-or-v1", "sk-or-v2"}
ModelArgs == {NoneStr, "mistralai/mistral-7b-instruct"}

\* get_llm_handler(api_key, model) in the thread of session s: the test
\* _llm_instance is None, which sends the call to the constructor or to the
\* return statement
LlmCall(s, api_key, model) ==
    /\ llm_call[s] = None
    /\ llm_call' = [llm_call EXCEPT ![s] =
            [at |-> IF llm_instance = None THEN "LLMHandler" ELSE "return",
             api_key |-> api_key, model |-> model]]
    /\ UNCHANGED <<store_vars, llm_vars, page_vars, api_vars, io_vars,
                   admin_vars, llm_ret, llm_constructed>>

\* LLMHandler(api_key, model) in the thread of session s: it raises, and the
\* call ends with nothing assigned, or the new object is assigned to
\* _llm_instance
LlmConstruct(s) ==
    /\ llm_call[s] # None
    /\ llm_call[s].at = "LLMHandler"
    /\ LET made == LLMHandlerInit(llm_call[s].api_key, llm_call[s].model)
       IN  IF made.raised # ""
           THEN /\ llm_ret' = [llm_ret EXCEPT ![s] = made]
                /\ llm_call' = [llm_call EXCEPT ![s] = None]
                /\ UNCHANGED <<llm_instance, llm_constructed>>
           ELSE /\ llm_instance' = made.value
                /\ llm_constructed' = llm_constructed + 1
                /\ llm_call' = [llm_call EXCEPT ![s].at = "return"]
                /\ UNCHANGED llm_ret
    /\ UNCHANGED <<store_vars, OPENROUTER_API_KEY, page_vars, api_vars, io_vars,
                   admin_vars>>

\* return _llm_instance in the thread of session s: the global as it is now
LlmReturn(s) ==
    /\ llm_call[s] # None
    /\ llm_call[s].at = "return"
    /\ llm_ret' = [llm_ret EXCEPT ![s] = [raised |-> "", value |-> llm_instance]]
    /\ llm_call' = [llm_call EXCEPT ![s] = None]
    /\ UNCHANGED <<store_vars, llm_vars, page_vars, api_vars, io_vars,
                   admin_vars, llm_constructed>>

-----------------------------------------------------------------------------
(* pages/1_user_dashboard.py *)

NoArtifacts ==
    [user_response |-> NoneText, admin_summary |-> NoneText,
     recommended_actions |-> NoneText]

ErrEmpty == "Please write a review before submitting!"
ErrShort == "Please provide a more detailed review (at least 10 characters)"
ErrNoKey == "API key not configured. Please set OPENROUTER_API_KEY environment variable."
ErrException == "An error occurred"

\* not review_text.strip()
IsBlank(text) == Strip(text) = << >>

\* the length check without strip()
IsTooShortUnstripped(text) == Len(text) < MinReviewLen

\* len(review_text.strip()) < 10
IsTooShort(text) == Len(Strip(text)) < MinReviewLen

\* a run of the script that ends with the form shown and the message err
ShowForm(s, r, text, err) ==
    /\ pc' = [pc EXCEPT ![s] = "form"]
    /\ rating' = [rating EXCEPT ![s] = r]
    /\ review_text' = [review_text EXCEPT ![s] = text]
    /\ error' = [error EXCEPT ![s] = err]
    /\ ai_responses' = [ai_responses EXCEPT ![s] = NoArtifacts]
    /\ api_log' = [api_log EXCEPT ![s] = << >>]
    /\ UNCHANGED <<admin_vars, call_vars, io_vars, submitted, response_data, store_vars, llm_vars, api_vars>>

\* "Submit Review" clicked with rating r and review text in the form: the
\* script runs up to its first remote call
SubmitReview(s, r, text) ==
    /\ pc[s] = "form"
    /\ ~submitted[s]
    /\ IF IsBlank(text)
       THEN ShowForm(s, r, text, ErrEmpty)
       ELSE IF IsTooShort(text)
       THEN ShowForm(s, r, text, ErrShort)
       ELSE IF Falsy(OPENROUTER_API_KEY)
       THEN ShowForm(s, r, text, ErrNoKey)
       ELSE IF GetLlmHandler(OPENROUTER_API_KEY, NoneStr).raised # ""
       THEN ShowForm(s, r, text, ErrException)
       ELSE /\ sqlite_sequence < MaxSubmissions
            /\ llm_instance' = GetLlmHandler(OPENROUTER_API_KEY, NoneStr).value
            /\ llm_ret' = [llm_ret EXCEPT ![s] = GetLlmHandler(OPENROUTER_API_KEY, NoneStr)]
            /\ llm_constructed' = IF llm_instance = None
                                  THEN llm_constructed + 1
                                  ELSE llm_constructed
            /\ pc' = [pc EXCEPT ![s] = "generate_user_response"]
            /\ rating' = [rating EXCEPT ![s] = r]
            /\ review_text' = [review_text EXCEPT ![s] = text]
            /\ error' = [error EXCEPT ![s] = ""]
            /\ ai_responses' = [ai_responses EXCEPT ![s] = NoArtifacts]
            /\ api_log' = [api_log EXCEPT ![s] = << >>]
            /\ UNCHANGED <<admin_vars, llm_call, io_vars, submitted, response_data,
                           store_vars, OPENROUTER_API_KEY, api_vars>>

\* process_feedback, first sub-call: the request ends in outcome
GenerateUserResponse(s, outcome) ==
    /\ pc[s] = "generate_user_response"
    /\ ai_responses' = [ai_responses EXCEPT
            ![s].user_response = generate_user_response(rating[s], outcome)]
    /\ api_log' = [api_log EXCEPT ![s] = Append(@, outcome)]
    /\ pc' = [pc EXCEPT ![s] = "generate_admin_summary"]
    /\ UNCHANGED <<admin_vars, call_vars, io_vars, submitted, response_data, rating, review_text, error,
                   store_vars, llm_vars, api_vars>>

\* process_feedback, second sub-call
GenerateAdminSummary(s, outcome) ==
    /\ pc[s] = "generate_admin_summary"
    /\ ai_responses' = [ai_responses EXCEPT
            ![s].admin_summary = generate_admin_summary(rating[s], outcome)]
    /\ api_log' = [api_log EXCEPT ![s] = Append(@, outcome)]
    /\ pc' = [pc EXCEPT ![s] = "generate_recommended_actions"]
    /\ UNCHANGED <<admin_vars, call_vars, io_vars, submitted, response_data, rating, review_text, error,
                   store_vars, llm_vars, api_vars>>

\* process_feedback, third sub-call, and its return
GenerateRecommendedActions(s, outcome) ==
    /\ pc[s] = "generate_recommended_actions"
    /\ ai_responses' = [ai_responses EXCEPT
            ![s].recommended_actions = generate_recommended_actions(rating[s], outcome)]
    /\ api_log' = [api_log EXCEPT ![s] = Append(@, outcome)]
    /\ pc' = [pc EXCEPT ![s] = "insert_feedback"]
    /\ UNCHANGED <<admin_vars, call_vars, io_vars, submitted, response_data, rating, review_text, error,
                   store_vars, llm_vars, api_vars>>

\* a receipt that keeps the review without the whitespace at its ends
ReceiptWithStrippedReview(s, feedback_id) ==
    [feedback_id |-> feedback_id,
     rating |-> rating[s],
     review |-> Strip(review_text[s]),
     response |-> ai_responses[s].user_response]

\* the receipt the page keeps in st.session_state.response_data
Receipt(s, feedback_id) ==
    [feedback_id |-> feedback_id,
     rating |-> rating[s],
     review |-> review_text[s],
     response |-> ai_responses[s].user_response]

\* db.insert_feedback returns: the session state is set and the script reruns
\* into the submitted view, which does not show the form
SaveFeedback(s) ==
    /\ pc[s] = "insert_feedback"
    /\ InsertFeedback(rating[s], review_text[s], ai_responses[s].user_response,
                      ai_responses[s].admin_summary,
                      ai_responses[s].recommended_actions)
    /\ response_data' = [response_data EXCEPT ![s] = Receipt(s, NextRowId)]
    /\ submitted' = [submitted EXCEPT ![s] = TRUE]
    /\ pc' = [pc EXCEPT ![s] = "submitted"]
    /\ rating' = [rating EXCEPT ![s] = DefaultRating]
    /\ review_text' = [review_text EXCEPT ![s] = << >>]
    /\ UNCHANGED <<admin_vars, call_vars, io_vars, ai_responses, api_log, error, llm_vars, api_vars>>

\* insert_feedback raising after its commit: the row stays
SaveFeedbackFailsAfterCommit(s) ==
    /\ pc[s] = "insert_feedback"
    /\ InsertFeedback(rating[s], review_text[s], ai_responses[s].user_response,
                      ai_responses[s].admin_summary,
                      ai_responses[s].recommended_actions)
    /\ error' = [error EXCEPT ![s] = ErrException]
    /\ pc' = [pc EXCEPT ![s] = "form"]
    /\ UNCHANGED <<admin_vars, call_vars, io_vars, submitted, response_data, rating, review_text, ai_responses,
                   api_log, llm_vars, api_vars>>

\* db.insert_feedback raises (the database is locked, the disk is full, the
\* file is read-only): nothing is committed, the except clause shows the error
SaveFeedbackFails(s) ==
    /\ pc[s] = "insert_feedback"
    /\ error' = [error EXCEPT ![s] = ErrException]
    /\ pc' = [pc EXCEPT ![s] = "form"]
    /\ UNCHANGED <<admin_vars, call_vars, io_vars, submitted, response_data, rating, review_text, ai_responses,
                   api_log, store_vars, llm_vars, api_vars>>

\* a reset that clears submitted and keeps the receipt
SubmitAnotherKeepingReceipt(s) ==
    /\ pc[s] = "submitted"
    /\ submitted[s]
    /\ submitted' = [submitted EXCEPT ![s] = FALSE]
    /\ pc' = [pc EXCEPT ![s] = "form"]
    /\ error' = [error EXCEPT ![s] = ""]
    /\ ai_responses' = [ai_responses EXCEPT ![s] = NoArtifacts]
    /\ api_log' = [api_log EXCEPT ![s] = << >>]
    /\ UNCHANGED <<admin_vars, call_vars, io_vars, response_data, rating,
                   review_text, store_vars, llm_vars, api_vars>>

\* "Submit Another Review" clicked
SubmitAnother(s) ==
    /\ pc[s] = "submitted"
    /\ submitted[s]
    /\ submitted' = [submitted EXCEPT ![s] = FALSE]
    /\ response_data' = [response_data EXCEPT ![s] = None]
    /\ pc' = [pc EXCEPT ![s] = "form"]
    /\ error' = [error EXCEPT ![s] = ""]
    /\ ai_responses' = [ai_responses EXCEPT ![s] = NoArtifacts]
    /\ api_log' = [api_log EXCEPT ![s] = << >>]
    /\ UNCHANGED <<admin_vars, call_vars, io_vars, rating, review_text, store_vars, llm_vars, api_vars>>

-----------------------------------------------------------------------------
(* utils/database.py: the methods called directly, and get_statistics query
   by query (each SELECT reads the committed table at the moment it runs; the
   connection opens no transaction around the four of them) *)

\* the values of a get_statistics that has run no query yet
NoStat ==
    [total_count |-> 0, avg_rating |-> [num |-> 0, den |-> 1],
     rating_dist |-> << >>]

\* '-1 day', in seconds
OneDay == 86400

RECURSIVE SumRatings(_)
SumRatings(rows) ==
    IF rows = {} THEN 0
    ELSE LET row == CHOOSE x \in rows : TRUE
         IN  row.rating + SumRatings(rows \ {row})

\* ORDER BY timestamp DESC: the latest timestamp first, rows of one timestamp
\* in the order of the table scan (ascending rowid)
RECURSIVE NewestFirst(_)
NewestFirst(rows) ==
    IF rows = {} THEN << >>
    ELSE LET first == CHOOSE x \in rows :
                         \A y \in rows :
                            \/ x.timestamp > y.timestamp
                            \/ x.timestamp = y.timestamp /\ x.id <= y.id
         IN  <<first>> \o NewestFirst(rows \ {first})

\* FeedbackDatabase.get_all_feedback
GetAllFeedback == NewestFirst(feedback)

\* a count taken from the id counter instead of the rows
TotalCountFromSequence == sqlite_sequence

\* SELECT COUNT(*) FROM feedback
TotalCount == Cardinality(feedback)

\* SELECT AVG(rating) FROM feedback, or 0: the exact quotient num / den
AvgRating ==
    IF feedback = {}
    THEN [num |-> 0, den |-> 1]
    ELSE [num |-> SumRatings(feedback), den |-> Cardinality(feedback)]

\* SELECT rating, COUNT(*) FROM feedback GROUP BY rating, as a dict
RatingDist ==
    [r \in {row.rating : row \in feedback} |->
        Cardinality({row \in feedback : row.rating = r})]

\* SELECT COUNT(*) ... WHERE datetime(timestamp) >= datetime('now', '-1 day')
RecentCount == Cardinality({row \in feedback : row.timestamp >= now - OneDay})

\* round(q, 2) cutting the digits after the second decimal
Round2Truncating(q) == (100 * q.num) \div q.den

\* round(q, 2) of the quotient q, in hundredths: to the nearest hundredth, a
\* tie to the even one
Round2(q) ==
    LET n == 100 * q.num
        lo == n \div q.den
        rest == n % q.den
    IN  IF 2 * rest < q.den THEN lo
        ELSE IF 2 * rest > q.den THEN lo + 1
        ELSE IF lo % 2 = 0 THEN lo ELSE lo + 1

\* a review that passes the page's validation
SampleReview == Padded(Word(MinReviewLen))

\* db.insert_feedback(r, ...) called with the artifacts of a run whose
\* requests all failed
ApiInsert(r) ==
    /\ sqlite_sequence < MaxId
    /\ InsertFeedback(r, SampleReview, UserResponseFallback(r),
                      AdminSummaryFallback(r), RecommendedActionsFallback(r))
    /\ ret' = [op |-> "insert_feedback", val |-> NextRowId]
    /\ UNCHANGED <<admin_vars, call_vars, io_vars, llm_vars, page_vars, stat_pc, stat>>

\* the review session s passes to insert_feedback
ReviewOf(s) == IF s = "user1" THEN SampleReview ELSE Word(MinReviewLen)

\* insert_feedback in session s, up to cursor.execute: the INSERT runs without
\* waiting for the database's write lock
InsertExecuteWithoutLock(s, r) ==
    /\ insert_conn[s] = None
    /\ insert_conn' = [insert_conn EXCEPT ![s] =
            InsertedRow(r, ReviewOf(s), UserResponseFallback(r),
                        AdminSummaryFallback(r), RecommendedActionsFallback(r))]
    /\ UNCHANGED <<admin_vars, call_vars, store_vars, llm_vars, page_vars, api_vars, csv_file>>

\* insert_feedback in session s, up to cursor.execute: the connection opens a
\* transaction and the INSERT takes the database's write lock, which it gets
\* when no other connection holds it (a writer that finds it taken waits; the
\* connection's timeout of 5 seconds is taken to outlast the holder's commit);
\* the row has its id and timestamp, nothing is committed
InsertExecute(s, r) ==
    /\ \A t \in Sessions : insert_conn[t] = None
    /\ insert_conn' = [insert_conn EXCEPT ![s] =
            InsertedRow(r, ReviewOf(s), UserResponseFallback(r),
                        AdminSummaryFallback(r), RecommendedActionsFallback(r))]
    /\ UNCHANGED <<admin_vars, call_vars, store_vars, llm_vars, page_vars, api_vars, csv_file>>

\* insert_feedback in session s, from cursor.lastrowid on: conn.commit()
\* writes the row and releases the lock, and the id is returned
InsertCommit(s) ==
    /\ insert_conn[s] # None
    /\ feedback' = feedback \cup {insert_conn[s]}
    /\ sqlite_sequence' = Max({sqlite_sequence, insert_conn[s].id})
    /\ issued' = Append(issued, insert_conn[s].id)
    /\ insert_conn' = [insert_conn EXCEPT ![s] = None]
    /\ ret' = [op |-> "insert_feedback", session |-> s, val |-> insert_conn[s].id]
    /\ UNCHANGED <<admin_vars, call_vars, now, llm_vars, page_vars, stat_pc, stat, csv_file>>

\* delete_feedback with deleted = cursor.rowcount >= 0
ApiDeleteAlwaysTrue(feedback_id) ==
    /\ feedback' = {row \in feedback : row.id # feedback_id}
    /\ ret' = [op |-> "delete_feedback", arg |-> feedback_id, val |-> TRUE]
    /\ UNCHANGED <<admin_vars, call_vars, io_vars, sqlite_sequence, now, issued, llm_vars, page_vars,
                   stat_pc, stat>>

\* FeedbackDatabase.delete_feedback
ApiDelete(feedback_id) ==
    /\ feedback' = {row \in feedback : row.id # feedback_id}
    /\ ret' = [op |-> "delete_feedback", arg |-> feedback_id,
               val |-> (\E row \in feedback : row.id = feedback_id)]
    /\ UNCHANGED <<admin_vars, call_vars, io_vars, sqlite_sequence, now, issued, llm_vars, page_vars, stat_pc, stat>>

\* clear_all_data with a DELETE that spares the row of the greatest id
ApiClearKeepsLast ==
    /\ feedback' = {row \in feedback : \A other \in feedback : other.id <= row.id}
    /\ ret' = [op |-> "clear_all_data"]
    /\ UNCHANGED <<admin_vars, call_vars, io_vars, sqlite_sequence, now, issued, llm_vars, page_vars,
                   stat_pc, stat>>

\* FeedbackDatabase.clear_all_data
ApiClear ==
    /\ feedback' = {}
    /\ ret' = [op |-> "clear_all_data"]
    /\ UNCHANGED <<admin_vars, call_vars, io_vars, sqlite_sequence, now, issued, llm_vars, page_vars, stat_pc, stat>>

\* get_statistics is called and runs its first query
StatCount ==
    /\ stat_pc = "idle"
    /\ stat' = [NoStat EXCEPT !.total_count = TotalCount]
    /\ stat_pc' = "counted"
    /\ UNCHANGED <<admin_vars, call_vars, io_vars, store_vars, llm_vars, page_vars, ret>>

\* its second query
StatAvg ==
    /\ stat_pc = "counted"
    /\ stat' = [stat EXCEPT !.avg_rating = AvgRating]
    /\ stat_pc' = "averaged"
    /\ UNCHANGED <<admin_vars, call_vars, io_vars, store_vars, llm_vars, page_vars, ret>>

\* its third query
StatDist ==
    /\ stat_pc = "averaged"
    /\ stat' = [stat EXCEPT !.rating_dist = RatingDist]
    /\ stat_pc' = "grouped"
    /\ UNCHANGED <<admin_vars, call_vars, io_vars, store_vars, llm_vars, page_vars, ret>>

\* its fourth query, and its return; average_rating is in hundredths
StatRecent ==
    /\ stat_pc = "grouped"
    /\ stat' = NoStat
    /\ stat_pc' = "idle"
    /\ ret' = [op |-> "get_statistics",
               val |-> [total_submissions |-> stat.total_count,
                        average_rating |-> Round2(stat.avg_rating),
                        rating_distribution |-> stat.rating_dist,
                        recent_submissions_24h |-> RecentCount]]
    /\ UNCHANGED <<admin_vars, call_vars, io_vars, store_vars, llm_vars, page_vars>>

\* a second passes on the clock CURRENT_TIMESTAMP reads
Tick ==
    /\ now < MaxNow
    /\ now' = now + 1
    /\ UNCHANGED <<admin_vars, call_vars, feedback, sqlite_sequence, issued, llm_vars, page_vars,
                   api_vars, io_vars>>

Min(a, b) == IF a <= b THEN a ELSE b

\* LIMIT n keeping one row more
LimitOffByOne(rows, n) ==
    IF n < 0 THEN rows ELSE SubSeq(rows, 1, Min(n + 1, Len(rows)))

\* LIMIT n: the first n rows of the result; every row when n is negative
Limit(rows, n) ==
    IF n < 0 THEN rows ELSE SubSeq(rows, 1, Min(n, Len(rows)))

\* FeedbackDatabase.get_all_feedback, called directly
ApiGetAll ==
    /\ ret' = [op |-> "get_all_feedback", val |-> GetAllFeedback]
    /\ UNCHANGED <<admin_vars, call_vars, store_vars, llm_vars, page_vars, stat_pc, stat, io_vars>>

\* cursor.fetchone() of SELECT * FROM feedback WHERE id = ?, as the dict the
\* method builds, or None
GetFeedbackById(feedback_id) ==
    IF \E row \in feedback : row.id = feedback_id
    THEN CHOOSE row \in feedback : row.id = feedback_id
    ELSE None

\* FeedbackDatabase.get_feedback_by_id
ApiGetById(feedback_id) ==
    /\ ret' = [op |-> "get_feedback_by_id", arg |-> feedback_id,
               val |-> GetFeedbackById(feedback_id)]
    /\ UNCHANGED <<admin_vars, call_vars, store_vars, llm_vars, page_vars, stat_pc, stat, io_vars>>

\* SELECT * FROM feedback WHERE rating = ? ORDER BY timestamp DESC
GetFeedbackByRating(r) == NewestFirst({row \in feedback : row.rating = r})

\* FeedbackDatabase.get_feedback_by_rating
ApiGetByRating(r) ==
    /\ ret' = [op |-> "get_feedback_by_rating", arg |-> r,
               val |-> GetFeedbackByRating(r)]
    /\ UNCHANGED <<admin_vars, call_vars, store_vars, llm_vars, page_vars, stat_pc, stat, io_vars>>

\* SELECT * FROM feedback ORDER BY timestamp DESC LIMIT {limit}
GetRecentFeedback(limit) == Limit(NewestFirst(feedback), limit)

\* FeedbackDatabase.get_recent_feedback
ApiGetRecent(limit) ==
    /\ ret' = [op |-> "get_recent_feedback", arg |-> limit,
               val |-> GetRecentFeedback(limit)]
    /\ UNCHANGED <<admin_vars, call_vars, store_vars, llm_vars, page_vars, stat_pc, stat, io_vars>>

\* the header to_csv writes: the columns of get_all_feedback's SELECT
CsvHeader ==
    <<"id", "timestamp", "rating", "review_text", "user_response",
      "admin_summary", "recommended_actions">>

\* the record to_csv writes for one row of the frame (index=False): its
\* values in the order of the columns; a text that holds a separator or a
\* line break is quoted and stays one record
CsvRecord(row) ==
    <<row.id, row.timestamp, row.rating, row.review_text, row.user_response,
      row.admin_summary, row.recommended_actions>>

\* df.to_csv(filepath, index=False, header=False)
ToCsvWithoutHeader(df) == [i \in 1..Len(df) |-> CsvRecord(df[i])]

\* df.to_csv(filepath, index=False): the header, then one record for each row
ToCsv(df) == <<CsvHeader>> \o [i \in 1..Len(df) |-> CsvRecord(df[i])]

\* FeedbackDatabase.export_to_csv
ApiExport ==
    /\ csv_file' = ToCsv(GetAllFeedback)
    /\ ret' = [op |-> "export_to_csv", val |-> Len(GetAllFeedback)]
    /\ UNCHANGED <<admin_vars, call_vars, store_vars, llm_vars, page_vars, stat_pc, stat, insert_conn>>

-----------------------------------------------------------------------------
(* pages/2_admin_dashboard.py: one action for each run of the script, named
   by what caused the run.  st.button returns True only in the run its own
   click caused, and only where the script calls it. *)

\* what a run leaves on screen: the script stops at "No feedback submissions
\* yet" when get_all_feedback returned no row; else it draws the management
\* buttons, and "Confirm Delete All" with them in a run where "Clear All
\* Data" returned True
AdminView(clear_clicked) ==
    IF GetAllFeedback = << >> THEN "empty"
    ELSE IF clear_clicked THEN "confirm"
    ELSE "dashboard"

\* the page is opened or reloaded in the browser
AdminLoad ==
    /\ admin_click' = ""
    /\ admin_view' = AdminView(FALSE)
    /\ UNCHANGED <<store_vars, llm_vars, page_vars, api_vars, io_vars, call_vars>>

\* "Refresh Data" clicked: st.rerun() starts the script again
ClickRefresh ==
    /\ admin_view # "closed"
    /\ admin_click' = "Refresh Data"
    /\ admin_view' = AdminView(FALSE)
    /\ UNCHANGED <<store_vars, llm_vars, page_vars, api_vars, io_vars, call_vars>>

\* "Export All Data to CSV" clicked
ClickExport ==
    /\ admin_view \in {"dashboard", "confirm"}
    /\ admin_click' = "Export All Data to CSV"
    /\ admin_view' = AdminView(FALSE)
    /\ csv_file' = IF GetAllFeedback = << >> THEN csv_file ELSE ToCsv(GetAllFeedback)
    /\ UNCHANGED <<store_vars, llm_vars, page_vars, api_vars, insert_conn, call_vars>>

\* "View Detailed Statistics" clicked
ClickViewStatistics ==
    /\ admin_view \in {"dashboard", "confirm"}
    /\ admin_click' = "View Detailed Statistics"
    /\ admin_view' = AdminView(FALSE)
    /\ UNCHANGED <<store_vars, llm_vars, page_vars, api_vars, io_vars, call_vars>>

\* "Clear All Data" clicked: its st.button returns True, the warning and the
\* inner button are drawn, and the inner st.button returns False
ClickClearAll ==
    /\ admin_view \in {"dashboard", "confirm"}
    /\ admin_click' = "Clear All Data"
    /\ admin_view' = AdminView(TRUE)
    /\ UNCHANGED <<store_vars, llm_vars, page_vars, api_vars, io_vars, call_vars>>

\* "Confirm Delete All" clicked: in the run this click causes, the st.button
\* of "Clear All Data" returns False, so the block that holds the inner button
\* and db.clear_all_data() is not entered
ClickConfirm ==
    /\ admin_view = "confirm"
    /\ admin_click' = "Confirm Delete All"
    /\ admin_view' = AdminView(FALSE)
    /\ UNCHANGED <<store_vars, llm_vars, page_vars, api_vars, io_vars, call_vars>>

-----------------------------------------------------------------------------
(* Specifications *)

Init ==
    /\ feedback = {}
    /\ sqlite_sequence = 0
    /\ now = 0
    /\ issued = << >>
    /\ OPENROUTER_API_KEY \in {NoneStr, "sk-or-v1"}
    /\ llm_instance = None
    /\ pc = [s \in Sessions |-> "form"]
    /\ submitted = [s \in Sessions |-> FALSE]
    /\ response_data = [s \in Sessions |-> None]
    /\ rating = [s \in Sessions |-> DefaultRating]
    /\ review_text = [s \in Sessions |-> << >>]
    /\ ai_responses = [s \in Sessions |-> NoArtifacts]
    /\ api_log = [s \in Sessions |-> << >>]
    /\ error = [s \in Sessions |-> ""]
    /\ ret = [op |-> "none"]
    /\ stat_pc = "idle"
    /\ stat = NoStat
    /\ insert_conn = [s \in Sessions |-> None]
    /\ csv_file = << >>
    /\ admin_view = "closed"
    /\ admin_click = ""
    /\ llm_call = [s \in Sessions |-> None]
    /\ llm_ret = [s \in Sessions |-> None]
    /\ llm_constructed = 0

\* one user session on the user page
PageSessions == {"user1"}

Next ==
    \E s \in PageSessions :
        \/ \E r \in SliderOptions, text \in ReviewTexts : SubmitReview(s, r, text)
        \/ \E outcome \in ApiOutcomes : GenerateUserResponse(s, outcome)
        \/ \E outcome \in ApiOutcomes : GenerateAdminSummary(s, outcome)
        \/ \E outcome \in ApiOutcomes : GenerateRecommendedActions(s, outcome)
        \/ SaveFeedback(s)
        \/ SaveFeedbackFails(s)
        \/ SubmitAnother(s)

Spec == Init /\ [][Next]_vars

\* the ratings a direct caller may pass: any integer around the star range
RatingArgs == 0..6

InitStore == Init /\ OPENROUTER_API_KEY = "sk-or-v1"

\* a write through one of the FeedbackDatabase methods
Write ==
    \/ \E r \in SliderOptions : ApiInsert(r)
    \/ \E id \in 1..MaxId : ApiDelete(id)
    \/ ApiClear

\* a query of get_statistics
StatQuery ==
    \/ StatCount
    \/ StatAvg
    \/ StatDist
    \/ StatRecent

\* callers of the FeedbackDatabase methods one at a time: no write while a
\* get_statistics is running
NextStore ==
    \/ stat_pc = "idle" /\ \E r \in SliderOptions : ApiInsert(r)
    \/ stat_pc = "idle" /\ \E id \in 1..MaxId : ApiDelete(id)
    \/ stat_pc = "idle" /\ ApiClear
    \/ StatQuery

SpecStore == InitStore /\ [][NextStore]_vars

\* callers in two sessions: writes commit between the queries of a running
\* get_statistics
NextConcurrent ==
    \/ Write
    \/ StatQuery

SpecConcurrent == InitStore /\ [][NextConcurrent]_vars

\* callers of insert_feedback that pass a rating unchecked
NextApi ==
    \/ \E r \in RatingArgs : ApiInsert(r)
    \/ \E id \in 1..MaxId : ApiDelete(id)
    \/ ApiClear

SpecApi == InitStore /\ [][NextApi]_vars

\* the table after insert_feedback was called once for each rating of the
\* sequence ratings, in order
TableOf(ratings) ==
    {[id |-> i,
      timestamp |-> 0,
      rating |-> ratings[i],
      review_text |-> SampleReview,
      user_response |-> UserResponseFallback(ratings[i]),
      admin_summary |-> AdminSummaryFallback(ratings[i]),
      recommended_actions |-> RecommendedActionsFallback(ratings[i])] :
        i \in 1..Len(ratings)}

\* the sequences of up to MaxRows ratings, one for each multiset of ratings
RatingSeqs ==
    UNION {{q \in [1..n -> SliderOptions] : \A i \in 1..(n - 1) : q[i] <= q[i + 1]} :
              n \in 0..MaxRows}

\* get_statistics on a table of up to MaxRows rows, nothing else running
InitAverage ==
    /\ \E ratings \in RatingSeqs :
          /\ feedback = TableOf(ratings)
          /\ sqlite_sequence = Len(ratings)
          /\ issued = [i \in 1..Len(ratings) |-> i]
    /\ now = 0
    /\ OPENROUTER_API_KEY = "sk-or-v1"
    /\ llm_instance = None
    /\ pc = [s \in Sessions |-> "form"]
    /\ submitted = [s \in Sessions |-> FALSE]
    /\ response_data = [s \in Sessions |-> None]
    /\ rating = [s \in Sessions |-> DefaultRating]
    /\ review_text = [s \in Sessions |-> << >>]
    /\ ai_responses = [s \in Sessions |-> NoArtifacts]
    /\ api_log = [s \in Sessions |-> << >>]
    /\ error = [s \in Sessions |-> ""]
    /\ ret = [op |-> "none"]
    /\ stat_pc = "idle"
    /\ stat = NoStat
    /\ insert_conn = [s \in Sessions |-> None]
    /\ csv_file = << >>
    /\ admin_view = "closed"
    /\ admin_click = ""
    /\ llm_call = [s \in Sessions |-> None]
    /\ llm_ret = [s \in Sessions |-> None]
    /\ llm_constructed = 0

SpecAverage == InitAverage /\ [][StatQuery]_vars

\* the ratings the callers of SpecQueries insert and ask for
QueryRatings == {4, 5}

\* the limits a caller may pass to get_recent_feedback
LimitArgs == (0 - 1)..(MaxRecords + 1)

\* a read through one of the FeedbackDatabase methods
Read ==
    \/ ApiGetAll
    \/ \E id \in 1..(MaxRecords + 1) : ApiGetById(id)
    \/ \E r \in QueryRatings : ApiGetByRating(r)
    \/ \E limit \in LimitArgs : ApiGetRecent(limit)
    \/ ApiExport

\* callers of every FeedbackDatabase method, one at a time, while the clock
\* runs
NextQueries ==
    \/ /\ stat_pc = "idle"
       /\ sqlite_sequence < MaxRecords
       /\ \E r \in QueryRatings : ApiInsert(r)
    \/ stat_pc = "idle" /\ \E id \in 1..(MaxRecords + 1) : ApiDelete(id)
    \/ stat_pc = "idle" /\ ApiClear
    \/ stat_pc = "idle" /\ Read
    \/ StatQuery
    \/ Tick

SpecQueries == InitStore /\ [][NextQueries]_vars

\* how the requests of SpecReceipt end: an answer that needs trimming, or a
\* failure
ReceiptOutcomes ==
    {o \in ApiOutcomes : o.kind = "RequestException" \/ o.content = <<" ", "ok", "\n">>}

\* a user who submits reviews that pass validation, while another caller
\* looks rows up by id, deletes them and clears the table
NextReceipt ==
    \/ \E s \in PageSessions :
          \/ \E r \in QueryRatings : SubmitReview(s, r, SampleReview)
          \/ \E outcome \in ReceiptOutcomes : GenerateUserResponse(s, outcome)
          \/ \E outcome \in ReceiptOutcomes : GenerateAdminSummary(s, outcome)
          \/ \E outcome \in ReceiptOutcomes : GenerateRecommendedActions(s, outcome)
          \/ SaveFeedback(s)
          \/ SubmitAnother(s)
    \/ \E id \in 1..(MaxSubmissions + 1) : ApiGetById(id)
    \/ \E id \in 1..(MaxSubmissions + 1) : ApiDelete(id)
    \/ ApiClear

SpecReceipt == InitStore /\ [][NextReceipt]_vars

\* insert_feedback called in two sessions, statement by statement
NextInterleaved ==
    \E s \in Sessions :
        \/ /\ Len(issued) < MaxId
           /\ \E r \in QueryRatings : InsertExecute(s, r)
        \/ InsertCommit(s)

SpecInterleaved == InitStore /\ [][NextInterleaved]_vars

\* an operator on the admin page while rows are inserted
NextAdmin ==
    \/ \E r \in QueryRatings : ApiInsert(r)
    \/ AdminLoad
    \/ ClickRefresh
    \/ ClickExport
    \/ ClickViewStatistics
    \/ ClickClearAll
    \/ ClickConfirm

SpecAdmin == InitStore /\ [][NextAdmin]_vars

\* get_llm_handler called in the threads of two sessions, statement by
\* statement
NextSingleton ==
    \E s \in Sessions :
        \/ \E api_key \in KeyArgs, model \in ModelArgs : LlmCall(s, api_key, model)
        \/ LlmConstruct(s)
        \/ LlmReturn(s)

SpecSingleton == Init /\ [][NextSingleton]_vars

-----------------------------------------------------------------------------
(* Claims about the submission flow, under Spec *)

\* what of the state belongs to session s
SessionView(s) ==
    <<pc[s], submitted[s], response_data[s], rating[s], review_text[s],
      ai_responses[s], api_log[s], error[s]>>

\* C1: a click on "Submit Review" with a review whose stripped length is below
\* 10 (empty and blank reviews included) ends with one of the two validation
\* messages and the form shown again, with no remote call made, no artifact
\* produced and the table and its id counter as they were.
C1_ShortReviewRejected ==
    [][\A s \in Sessions :
          (/\ pc[s] = "form"
           /\ SessionView(s)' # SessionView(s)
           /\ Len(Strip(review_text'[s])) < MinReviewLen)
          => /\ pc'[s] = "form"
             /\ error'[s] \in {ErrEmpty, ErrShort}
             /\ api_log'[s] = << >>
             /\ ai_responses'[s] = NoArtifacts
             /\ ~submitted'[s]
             /\ feedback' = feedback
             /\ sqlite_sequence' = sqlite_sequence]_vars

\* a review of 11 characters that strips to 9 was rejected while the table
\* held a row
C1_Witness ==
    \E s \in Sessions :
        /\ error[s] = ErrShort
        /\ Len(review_text[s]) >= MinReviewLen
        /\ Len(Strip(review_text[s])) < MinReviewLen
        /\ feedback # {}

\* every request of the run failed
AllFailed(s) ==
    /\ Len(api_log[s]) = 3
    /\ \A i \in 1..3 : api_log[s][i].kind # "ok"

\* the rating the run of session s was submitted with
SubmittedRating(s) == IF submitted[s] THEN response_data[s].rating ELSE rating[s]

Contains(t, x) == \E i \in 1..Len(t) : t[i] = x

\* C7: when all three requests of a submission fail, process_feedback still
\* returns (the script stands at the insert or beyond it), its three artifacts
\* are non-empty texts, user_response holds the rating's digit, admin_summary
\* and recommended_actions open with the text of the rating's band (<= 2, = 3,
\* >= 4), and once the insert has returned the row with the receipt's id holds
\* exactly these artifacts.
C7_AllFailFallback ==
    \A s \in Sessions :
        AllFailed(s) =>
            LET a == ai_responses[s]
                r == SubmittedRating(s)
            IN  /\ pc[s] \in {"insert_feedback", "submitted", "form"}
                /\ pc[s] = "form" => error[s] = ErrException
                /\ \A f \in DOMAIN a : a[f] # << >> /\ a[f] # NoneText
                /\ Contains(a.user_response, Str(r))
                /\ a.admin_summary[1] =
                      (IF r <= 2 THEN "Customer expressed dissatisfaction ("
                       ELSE IF r = 3 THEN "Mixed review ("
                       ELSE "Positive review (")
                /\ a.recommended_actions[1] =
                      (IF r <= 2 THEN "* Contact customer directly to address concerns"
                       ELSE IF r = 3 THEN "* Analyze feedback for improvement areas"
                       ELSE "* Thank customer for positive feedback")
                /\ submitted[s] =>
                      \E row \in feedback :
                          /\ row.id = response_data[s].feedback_id
                          /\ row.rating = r
                          /\ row.user_response = a.user_response
                          /\ row.admin_summary = a.admin_summary
                          /\ row.recommended_actions = a.recommended_actions

\* a 2-star submission whose three requests failed in three different ways
\* was stored
C7_Witness ==
    \E s \in Sessions :
        /\ AllFailed(s)
        /\ submitted[s]
        /\ response_data[s].rating = 2
        /\ {api_log[s][i].kind : i \in 1..3} = {"RequestException", "KeyError", "IndexError"}
        /\ \E row \in feedback : row.id = response_data[s].feedback_id

\* t is c without the whitespace at its two ends
IsTrimOf(t, c) ==
    \E i, j \in 0..Len(c) :
        /\ i + j <= Len(c)
        /\ t = SubSeq(c, i + 1, Len(c) - j)
        /\ \A k \in 1..i : c[k] \in Whitespace
        /\ \A k \in (Len(c) - j + 1)..Len(c) : c[k] \in Whitespace
        /\ t = << >> \/ (t[1] \notin Whitespace /\ t[Len(t)] \notin Whitespace)

\* the artifact the i-th sub-call produces
ArtifactOf(s, i) ==
    CASE i = 1 -> ai_responses[s].user_response
      [] i = 2 -> ai_responses[s].admin_summary
      [] i = 3 -> ai_responses[s].recommended_actions

FallbackOf(r, i) ==
    CASE i = 1 -> UserResponseFallback(r)
      [] i = 2 -> AdminSummaryFallback(r)
      [] i = 3 -> RecommendedActionsFallback(r)

\* C8: whatever the outcomes of the sub-calls so far, the script has moved on
\* to the next sub-call (to the insert after the third), each artifact of a
\* request that succeeded is the remote content without the whitespace at its
\* ends, each artifact of a request that failed is that artifact's fallback
\* for the rating, and a sub-call not yet made has produced nothing.
C8_IndependentSubCalls ==
    \A s \in Sessions :
        LET n == Len(api_log[s])
            r == SubmittedRating(s)
        IN  /\ n = 1 => pc[s] = "generate_admin_summary"
            /\ n = 2 => pc[s] = "generate_recommended_actions"
            /\ n = 3 => pc[s] \in {"insert_feedback", "submitted", "form"}
            /\ \A i \in 1..3 :
                  IF i > n
                  THEN pc[s] \in {"form", "generate_user_response",
                                  "generate_admin_summary",
                                  "generate_recommended_actions"}
                       => ArtifactOf(s, i) = NoneText
                  ELSE IF api_log[s][i].kind = "ok"
                  THEN IsTrimOf(ArtifactOf(s, i), api_log[s][i].content)
                  ELSE ArtifactOf(s, i) = FallbackOf(r, i)

\* process_feedback has returned after its first request failed, its second
\* succeeded with content that needed trimming and its third failed
C8_Witness ==
    \E s \in Sessions :
        /\ pc[s] = "insert_feedback"
        /\ api_log[s][1].kind = "KeyError"
        /\ api_log[s][2].kind = "ok"
        /\ api_log[s][2].content # ai_responses[s].admin_summary
        /\ api_log[s][3].kind = "RequestException"

Populated(row) ==
    /\ row.user_response # NoneText
    /\ row.admin_summary # NoneText
    /\ row.recommended_actions # NoneText

\* C9: every row of the table has its three derived fields set, and the table
\* changes only by a session that stands at the insert with all three
\* sub-calls made adding one row that holds the three artifacts of that run:
\* a submission still generating has added nothing.
C9_NoPartialRecord ==
    /\ [](\A row \in feedback : Populated(row))
    /\ [][feedback' # feedback =>
            \E s \in Sessions :
                /\ pc[s] = "insert_feedback"
                /\ Len(api_log[s]) = 3
                /\ \E row \in feedback' :
                      /\ feedback' = feedback \cup {row}
                      /\ row \notin feedback
                      /\ row.user_response = ai_responses[s].user_response
                      /\ row.admin_summary = ai_responses[s].admin_summary
                      /\ row.recommended_actions = ai_responses[s].recommended_actions
                      /\ Populated(row)]_vars

\* a submission's row is in the table, fully populated, one artifact remote
\* and one a fallback
C9_Witness ==
    \E s \in Sessions :
        /\ submitted[s]
        /\ \E row \in feedback :
              /\ row.id = response_data[s].feedback_id
              /\ Populated(row)
              /\ row.user_response = <<"ok">>
              /\ row.admin_summary = AdminSummaryFallback(row.rating)

\* C10: a session reaches the insert only from the third sub-call, with a
\* review that passed validation; when the insert fails the script ends with
\* the error shown and the form again, the table and its id counter are as
\* before, the session is neither marked submitted nor given a receipt, and
\* the insert is not tried again (the session stands at the form, from where
\* only a new click, through validation and generation, leads to an insert).
C10_InsertFailure ==
    [][\A s \in Sessions :
          /\ (pc'[s] = "insert_feedback" /\ pc[s] # "insert_feedback")
             => /\ pc[s] = "generate_recommended_actions"
                /\ Len(Strip(review_text[s])) >= MinReviewLen
          /\ (pc[s] = "insert_feedback" /\ pc'[s] # "insert_feedback")
             => \/ /\ pc'[s] = "submitted"
                   /\ submitted'[s]
                   /\ \E row \in feedback' \ feedback :
                         row.id = response_data'[s].feedback_id
                \/ /\ pc'[s] = "form"
                   /\ error'[s] = ErrException
                   /\ feedback' = feedback
                   /\ sqlite_sequence' = sqlite_sequence
                   /\ issued' = issued
                   /\ ~submitted'[s]
                   /\ response_data'[s] = None]_vars

\* an insert failed: the error is shown after all three sub-calls were made,
\* the session is not submitted and the table is empty
C10_Witness ==
    \E s \in Sessions :
        /\ error[s] = ErrException
        /\ pc[s] = "form"
        /\ Len(api_log[s]) = 3
        /\ ~submitted[s]
        /\ feedback = {}

\* C11: while OPENROUTER_API_KEY is not set, LLMHandler() and get_llm_handler()
\* raise ValueError and no instance is installed; every click on "Submit
\* Review" ends at the form with a message (the missing-key message when the
\* review passes validation), no request was made, no artifact produced and
\* the table and its id counter are as at the start.
C11_NoCredential ==
    /\ [](Falsy(OPENROUTER_API_KEY) =>
            /\ LLMHandlerInit(NoneStr, NoneStr).raised = "ValueError"
            /\ GetLlmHandler(OPENROUTER_API_KEY, NoneStr).raised = "ValueError"
            /\ llm_instance = None
            /\ feedback = {}
            /\ sqlite_sequence = 0
            /\ \A s \in Sessions :
                  /\ pc[s] = "form"
                  /\ api_log[s] = << >>
                  /\ ai_responses[s] = NoArtifacts
                  /\ ~submitted[s])
    /\ [][Falsy(OPENROUTER_API_KEY) =>
            \A s \in Sessions :
                SessionView(s)' # SessionView(s) =>
                    /\ error'[s] \in {ErrEmpty, ErrShort, ErrNoKey}
                    /\ Len(Strip(review_text'[s])) >= MinReviewLen
                       => error'[s] = ErrNoKey]_vars

\* a review that passes validation was submitted without a key configured
C11_Witness ==
    \E s \in Sessions :
        /\ Falsy(OPENROUTER_API_KEY)
        /\ error[s] = ErrNoKey
        /\ Len(Strip(review_text[s])) >= MinReviewLen

\* C23: at the end of every run of the user page, submitted is true exactly
\* when response_data is set; submitted turns true only in the step in which
\* insert_feedback returned, and response_data then holds the id, rating,
\* review text and user response of the row that step added; while submitted
\* is true the session is at the submitted view and the table gets no row;
\* submitted turns false only by "Submit Another Review", which clears
\* response_data as well; and no step adds more than one row.
C23_SubmittedIffReceipt ==
    /\ [](\A s \in Sessions :
            /\ submitted[s] <=> response_data[s] # None
            /\ submitted[s] <=> pc[s] = "submitted")
    /\ [][\A s \in PageSessions :
            /\ (~submitted[s] /\ submitted'[s]) =>
                  /\ pc[s] = "insert_feedback"
                  /\ \E row \in feedback' :
                        /\ feedback' = feedback \cup {row}
                        /\ row \notin feedback
                        /\ response_data'[s].feedback_id = row.id
                        /\ response_data'[s].rating = row.rating
                        /\ response_data'[s].review = row.review_text
                        /\ response_data'[s].response = row.user_response
            /\ submitted[s] => feedback' = feedback
            /\ (submitted[s] /\ submitted'[s]) => response_data'[s] = response_data[s]
            /\ (submitted[s] /\ ~submitted'[s]) =>
                  (response_data'[s] = None /\ pc'[s] = "form")
            /\ Cardinality(feedback') <= Cardinality(feedback) + 1]_vars

\* "Submit Another Review" was clicked after a submission: the row is in the
\* table, the session has neither flag nor receipt and shows the form
C23_Witness ==
    \E s \in Sessions :
        /\ feedback # {}
        /\ ~submitted[s]
        /\ response_data[s] = None
        /\ pc[s] = "form"
        /\ error[s] = ""
        /\ review_text[s] = << >>

-----------------------------------------------------------------------------
(* Claims about the store *)

\* C2 (as claimed): a call of insert_feedback with a rating outside 1..5 is
\* refused with a validation error and leaves the number of rows as it was.
\* Stated for SpecApi.
C2_RatingOutOfRangeRejected ==
    [][\A r \in RatingArgs \ SliderOptions :
          ApiInsert(r) =>
              /\ Cardinality(feedback') = Cardinality(feedback)
              /\ ret'.op = "ValidationError"]_vars

\* C3: the ids insert_feedback has returned, in the order of the calls, are
\* strictly increasing, whatever was deleted or cleared in between.  Stated
\* for SpecStore.
C3_IdsNeverReused ==
    \A i, j \in 1..Len(issued) : i < j => issued[i] < issued[j]

\* an insert returned after every earlier row had been removed
C3_Witness ==
    /\ ret.op = "insert_feedback"
    /\ Len(issued) >= 2
    /\ Cardinality(feedback) = 1

RECURSIVE SumCounts(_)
SumCounts(dist) ==
    IF DOMAIN dist = {} THEN 0
    ELSE LET r == CHOOSE x \in DOMAIN dist : TRUE
         IN  dist[r] + SumCounts([x \in DOMAIN dist \ {r} |-> dist[x]])

\* C4: when get_statistics has returned and no write ran since it was called,
\* its total_submissions is the number of rows get_all_feedback returns and
\* the sum of the counts of its rating_distribution.  Stated for SpecStore,
\* where no write runs during a get_statistics.
C4_TotalsAgree ==
    ret.op = "get_statistics" =>
        /\ ret.val.total_submissions = Len(GetAllFeedback)
        /\ SumCounts(ret.val.rating_distribution) = ret.val.total_submissions

\* statistics of a table that holds two rows of different ratings after a
\* third was deleted
C4_Witness ==
    /\ ret.op = "get_statistics"
    /\ ret.val.total_submissions = 2
    /\ Cardinality(DOMAIN ret.val.rating_distribution) = 2
    /\ sqlite_sequence = 3

\* C5 (as claimed): whatever commits while get_statistics runs, the snapshot
\* it returns is of one record set: the counts of rating_distribution sum to
\* total_submissions.  Stated for SpecConcurrent.
C5_SnapshotConsistent ==
    ret.op = "get_statistics" =>
        SumCounts(ret.val.rating_distribution) = ret.val.total_submissions

Abs(x) == IF x < 0 THEN -x ELSE x

\* C6 (as claimed, its bound taken as <= 0.01 so that a violation rests
\* neither on the boundary case nor on how the product is rounded):
\* average_rating is 0 for the empty table, and for a table of ratings in 1..5
\* it is so close to the mean that |average_rating * total_submissions -
\* sum(ratings)| <= 0.01; in hundredths, |average_rating * total - 100 * sum|
\* <= 1.  Stated for SpecAverage.
C6_AverageWithinHundredth ==
    ret.op = "get_statistics" =>
        LET n == Cardinality(feedback)
            a == ret.val.average_rating
        IN  /\ n = 0 => a = 0
            /\ (n > 0 /\ \A row \in feedback : row.rating \in SliderOptions)
               => Abs(a * n - 100 * SumRatings(feedback)) <= 1

\* C6 (amended): average_rating is 0 for the empty table, and otherwise the
\* hundredth nearest to the mean: |average_rating - mean| <= 0.005, that is
\* |average_rating * total_submissions - sum(ratings)| <= 0.005 *
\* total_submissions; in hundredths, 2 * |average_rating * total - 100 * sum|
\* <= total.  Stated for SpecAverage.
C6_AverageRounded ==
    ret.op = "get_statistics" =>
        LET n == Cardinality(feedback)
            a == ret.val.average_rating
        IN  /\ ret.val.total_submissions = n
            /\ n = 0 => a = 0
            /\ n > 0 => 2 * Abs(a * n - 100 * SumRatings(feedback)) <= n

\* statistics of six rows whose rounded average times six is two hundredths
\* off the sum of the ratings
C6_Witness ==
    /\ ret.op = "get_statistics"
    /\ Cardinality(feedback) = 6
    /\ Abs(ret.val.average_rating * 6 - 100 * SumRatings(feedback)) = 2


-----------------------------------------------------------------------------
(* Claims about the queries, for SpecQueries *)

\* the ids a caller of SpecQueries may pass
IdArgs == 1..(MaxRecords + 1)

\* C12: delete_feedback(id) returns True exactly when a row with that id was
\* in the table at the call; after True that row alone is gone and COUNT(*)
\* is 1 lower, after False the table is as before; no row with the id is left
\* in either case, and a delete of the same id right after a True one returns
\* False and leaves the table as it is.
C12_DeleteOnce ==
    [][\A id \in IdArgs :
          (/\ ret'.op = "delete_feedback"
           /\ ret'.arg = id
           /\ <<ret, feedback>>' # <<ret, feedback>>)
          => /\ ret'.val = (\E row \in feedback : row.id = id)
             /\ ~(\E row \in feedback' : row.id = id)
             /\ ret'.val => /\ feedback' = {row \in feedback : row.id # id}
                            /\ TotalCount' = TotalCount - 1
             /\ ~ret'.val => feedback' = feedback
             /\ (ret.op = "delete_feedback" /\ ret.arg = id /\ ret.val)
                => (~ret'.val /\ feedback' = feedback)]_vars

\* a delete returned False for an id that had been issued, while another row
\* was in the table
C12_Witness ==
    /\ ret.op = "delete_feedback"
    /\ ~ret.val
    /\ \E i \in 1..Len(issued) : issued[i] = ret.arg
    /\ feedback # {}

\* C13 (as claimed): get_all_feedback returns every row of the table, with
\* timestamps that do not increase along the result, and of any two rows the
\* one with the greater id comes first, rows of one timestamp included.
C13_NewestFirst ==
    ret.op = "get_all_feedback" =>
        LET df == ret.val
        IN  /\ {df[i] : i \in 1..Len(df)} = feedback
            /\ Len(df) = Cardinality(feedback)
            /\ \A i, j \in 1..Len(df) :
                  i < j => /\ df[i].timestamp >= df[j].timestamp
                           /\ df[i].id > df[j].id

\* C14 (as claimed): for every limit, get_recent_feedback(limit) returns at
\* most limit rows, and they are the first min(limit, total) rows of what
\* get_all_feedback returns.
C14_RecentAtMostLimit ==
    ret.op = "get_recent_feedback" =>
        /\ Len(ret.val) <= ret.arg
        /\ ret.val = SubSeq(GetAllFeedback, 1, Min(ret.arg, Len(GetAllFeedback)))

\* C14 (amended): for every limit >= 0, get_recent_feedback(limit) returns at
\* most limit rows, the first min(limit, total) rows of what get_all_feedback
\* returns, in its order; for a negative limit it returns all of what
\* get_all_feedback returns.
C14_RecentPrefix ==
    ret.op = "get_recent_feedback" =>
        LET df == GetAllFeedback
            k == Min(ret.arg, Len(df))
        IN  IF ret.arg >= 0
            THEN /\ Len(ret.val) <= ret.arg
                 /\ Len(ret.val) = k
                 /\ \A i \in 1..k : ret.val[i] = df[i]
            ELSE ret.val = df

\* get_recent_feedback(1) returned one of the two rows of the table
C14_Witness ==
    /\ ret.op = "get_recent_feedback"
    /\ ret.arg = 1
    /\ Len(ret.val) = 1
    /\ Cardinality(feedback) = 2

\* C15: get_feedback_by_id(id) returns the row with that id when the table
\* holds one (inserted and neither deleted nor cleared since) and None when it
\* holds none; the row it returns for the id of the receipt a session holds
\* has the receipt's rating, review text and user response.  Stated for
\* SpecReceipt.
C15_GetById ==
    [][(ret' # ret /\ ret'.op = "get_feedback_by_id") =>
          LET id == ret'.arg
              found == ret'.val
          IN  /\ IF \E row \in feedback' : row.id = id
                 THEN found \in feedback' /\ found.id = id
                 ELSE found = None
              /\ \A s \in Sessions :
                    (/\ submitted'[s]
                     /\ response_data'[s].feedback_id = id
                     /\ found # None)
                    => /\ found.rating = response_data'[s].rating
                       /\ found.review_text = response_data'[s].review
                       /\ found.user_response = response_data'[s].response]_vars

\* the row of the receipt a session holds was looked up: its review has
\* whitespace at its ends and its user response came from the remote service
C15_Witness ==
    \E s \in Sessions :
        /\ submitted[s]
        /\ ret.op = "get_feedback_by_id"
        /\ ret.arg = response_data[s].feedback_id
        /\ ret.val # None
        /\ ret.val.review_text # Strip(ret.val.review_text)
        /\ ret.val.user_response = <<"ok">>

\* C16: after clear_all_data has returned, whatever the table held, the table
\* holds no row, and a get_statistics that follows it returns
\* total_submissions 0, average_rating 0, an empty rating_distribution and
\* recent_submissions_24h 0.
C16_ClearResets ==
    /\ [](ret.op = "clear_all_data" => feedback = {})
    /\ [][(ret.op = "clear_all_data" /\ ret'.op = "get_statistics") =>
            /\ ret'.val.total_submissions = 0
            /\ ret'.val.average_rating = 0
            /\ DOMAIN ret'.val.rating_distribution = {}
            /\ ret'.val.recent_submissions_24h = 0]_vars

\* a get_statistics called after a clear_all_data is at its last query; two
\* rows had been inserted before the clear
C16_Witness ==
    /\ ret.op = "clear_all_data"
    /\ stat_pc = "grouped"
    /\ sqlite_sequence >= 2
    /\ stat.total_count = 0

\* C17: export_to_csv writes a file of the header followed by one record for
\* each row of the table, each row once, and returns the number of these
\* records, which is what COUNT(*) gives (total_submissions) in that state;
\* the table, its id counter and the clock's reading are as before the call.
C17_ExportCount ==
    [][(ret'.op = "export_to_csv" /\ <<ret, csv_file>>' # <<ret, csv_file>>) =>
          /\ Len(csv_file') = Cardinality(feedback') + 1
          /\ csv_file'[1] = CsvHeader
          /\ \A row \in feedback' :
                Cardinality({i \in 2..Len(csv_file') : csv_file'[i] = CsvRecord(row)}) = 1
          /\ ret'.val = Len(csv_file') - 1
          /\ ret'.val = TotalCount'
          /\ store_vars' = store_vars]_vars

\* two rows were exported: the file holds the header and two records
C17_Witness ==
    /\ ret.op = "export_to_csv"
    /\ ret.val = 2
    /\ Len(csv_file) = 3
    /\ Cardinality(feedback) = 2

\* C18 (as claimed): get_feedback_by_rating(r) returns the rows of rating r,
\* each once and no other, newest first (timestamps do not increase and of
\* two rows the one inserted later comes first), and rating_distribution has
\* an entry for r exactly when the result is not empty, its count the length
\* of the result.
C18_ByRating ==
    ret.op = "get_feedback_by_rating" =>
        LET df == ret.val
            r == ret.arg
        IN  /\ {df[i] : i \in 1..Len(df)} = {row \in feedback : row.rating = r}
            /\ Len(df) = Cardinality({row \in feedback : row.rating = r})
            /\ \A i, j \in 1..Len(df) :
                  i < j => /\ df[i].timestamp >= df[j].timestamp
                           /\ df[i].id > df[j].id
            /\ r \in DOMAIN RatingDist <=> Len(df) > 0
            /\ Len(df) > 0 => RatingDist[r] = Len(df)

\* the methods that only read
ReadOps ==
    {"get_all_feedback", "get_feedback_by_id", "get_feedback_by_rating",
     "get_recent_feedback", "get_statistics", "export_to_csv"}

\* C20: in every step a row that stays in the table keeps its id, timestamp,
\* rating, review text and three artifacts; the table changes only by an
\* insert that adds exactly one row, of an id no row of the table has, by a
\* delete that removes the row of the id passed and no other, or by a clear;
\* the read methods (each query of get_statistics included) and the clock
\* leave the table and its id counter as they are.
C20_RowsImmutable ==
    [][/\ \A old \in feedback : \A new \in feedback' :
             new.id = old.id => new = old
       /\ feedback' # feedback =>
             \/ /\ ret'.op = "insert_feedback"
                /\ \E row \in feedback' :
                      /\ feedback' = feedback \cup {row}
                      /\ \A old \in feedback : old.id # row.id
                      /\ Cardinality(feedback') = Cardinality(feedback) + 1
             \/ /\ ret'.op = "delete_feedback"
                /\ feedback' = {row \in feedback : row.id # ret'.arg}
                /\ Cardinality(feedback') = Cardinality(feedback) - 1
             \/ /\ ret'.op = "clear_all_data"
                /\ feedback' = {}
       /\ (ret' # ret /\ ret'.op \in ReadOps) =>
             <<feedback, sqlite_sequence, issued>>' = <<feedback, sqlite_sequence, issued>>
       /\ (stat_pc' # stat_pc \/ now' # now) =>
             <<feedback, sqlite_sequence, issued>>' = <<feedback, sqlite_sequence, issued>>]_vars

\* a row inserted a second ago is still in the table after the delete of
\* another row
C20_Witness ==
    /\ ret.op = "delete_feedback"
    /\ ret.val
    /\ \E row \in feedback : row.timestamp < now /\ row.id # ret.arg

-----------------------------------------------------------------------------
(* Claims about inserts of two sessions, for SpecInterleaved *)

\* C19: however the statements of the two sessions' inserts interleave, the
\* ids returned so far are pairwise distinct, every insert that returned has
\* its row in the table and the table has one row for each, and the commit of
\* session s adds exactly one row, with the id returned to s, an id never
\* returned before, and with the rating and review s passed.
C19_NoLostInsert ==
    /\ [](/\ \A i, j \in 1..Len(issued) : i # j => issued[i] # issued[j]
          /\ \A i \in 1..Len(issued) : \E row \in feedback : row.id = issued[i]
          /\ Cardinality(feedback) = Len(issued))
    /\ [][\A s \in Sessions :
            (insert_conn[s] # None /\ insert_conn'[s] = None) =>
                /\ ret'.session = s
                /\ \A i \in 1..Len(issued) : issued[i] # ret'.val
                /\ Cardinality(feedback') = Cardinality(feedback) + 1
                /\ \E row \in feedback' :
                      /\ feedback' = feedback \cup {row}
                      /\ row.id = ret'.val
                      /\ row.rating = insert_conn[s].rating
                      /\ row.review_text = ReviewOf(s)
                      /\ Populated(row)]_vars

\* both sessions have a row of their own in the table, with different
\* ratings, and one of them is at the commit of a third insert
C19_Witness ==
    /\ \E r1, r2 \in feedback :
          /\ r1.review_text = ReviewOf("user1")
          /\ r2.review_text = ReviewOf("user2")
          /\ r1.rating # r2.rating
    /\ Cardinality(feedback) = 2
    /\ \E s \in Sessions : insert_conn[s] # None

-----------------------------------------------------------------------------
(* Claims about the admin page, for SpecAdmin *)

\* C21 (as claimed): the table is emptied only by the run that a click on
\* "Confirm Delete All" causes after a click on "Clear All Data", and the run
\* that a click on "Confirm Delete All" causes after a click on "Clear All
\* Data" leaves the table empty.
C21_ConfirmedClear ==
    /\ [][(feedback # {} /\ feedback' = {}) =>
            (admin_click = "Clear All Data" /\ admin_click' = "Confirm Delete All")]_vars
    /\ [][(admin_click = "Clear All Data" /\ admin_click' = "Confirm Delete All") =>
            feedback' = {}]_vars

-----------------------------------------------------------------------------
(* Claims about get_llm_handler, for SpecSingleton *)

\* C22 (as claimed): over any calls of get_llm_handler, calls of two sessions
\* at the same time included, at most one LLMHandler is constructed; once an
\* instance is installed it stays the installed one, with its api_key and
\* model, and every call that returns gives it, whatever its arguments; and a
\* construction that raises installs nothing.
C22_SingleInstance ==
    /\ [](llm_constructed <= 1)
    /\ [](\A s \in Sessions :
            (llm_ret[s] # None /\ llm_ret[s].raised = "") =>
                llm_ret[s].value = llm_instance)
    /\ [][llm_instance # None => llm_instance' = llm_instance]_vars
    /\ [][\A s \in Sessions :
            (llm_ret'[s] # llm_ret[s] /\ llm_ret'[s].raised # "") =>
                llm_instance' = llm_instance]_vars
====
